---- MODULE Spec2Model ----
(***************************************************************************)
(* Model of backend/main.py: the SSE streaming proxy stream_ollama, the    *)
(* async generator that translates Ollama's JSON-lines stream into SSE     *)
(* events, and the json.dumps encoding of its Text events.                 *)
(***************************************************************************)
EXTENDS Integers, Sequences, FiniteSets, TLC

VARIABLES
    active,     \* the stream_ollama generator instances that exist
    lines,      \* lines[i]: what resp.aiter_lines() of instance i will deliver
    pc,         \* pc[i]: where generator i is suspended
    idx,        \* idx[i]: number of backend lines generator i has consumed
    out,        \* out[i]: events generator i has yielded to its client
    conn,       \* conn[i]: the httpx response/connection of i is open
    opens,      \* opens[i]: how often i opened a backend connection
    status,     \* status[i]: initial HTTP status of the backend response
    pend,       \* pend[i]: ollama_data.get("done") of the frame whose yield is pending
    fault,      \* fault[i]: which exception (if any) the generator has seen
    cancelled,  \* cancelled[i]: the client closed generator i
    frag,       \* json.dumps round trip: the fragment (chunk_text)
    wire,       \* json.dumps round trip: the SSE event string yielded
    parsed,     \* json.dumps round trip: what the client parsed from it
    epc,        \* json.dumps round trip: position
    req,        \* endpoint request: the form fields as received
    rpc,        \* endpoint request: position of the handler
    rprompt,    \* endpoint request: the handler's local `prompt`
    rhas,       \* endpoint request: the handler's local `has_image`
    rimg,       \* endpoint request: the handler's local `image_base64`
    resp,       \* endpoint request: HTTP status of the response, 0 while there is none
    rdetail,    \* endpoint request: `detail` of the HTTPException raised, if any
    invoked     \* endpoint request: the backend calls made, with their arguments

streamVars == <<active, lines, pc, idx, out, conn, opens, status, pend, fault, cancelled>>
encVars == <<frag, wire, parsed, epc>>
reqVars == <<req, rpc, rprompt, rhas, rimg, resp, rdetail, invoked>>
vars == <<active, lines, pc, idx, out, conn, opens, status, pend, fault, cancelled,
          frag, wire, parsed, epc, req, rpc, rprompt, rhas, rimg, resp, rdetail, invoked>>

(***************************************************************************)
(* Bounds                                                                  *)
(***************************************************************************)
MaxLines == 3
MaxFragLen == 3

Streams == {1, 2}

(***************************************************************************)
(* Strings are sequences of one-character strings.                         *)
(***************************************************************************)
SP == " "
EAcute == "U+00E9"          \* one non-ASCII character
QUOTE == "\""
BSLASH == "\\"
NL == "\n"

NoStr == <<>>

(* fragments carried by "response", and the content of non-JSON lines *)
Fragments == { <<"a">>, <<"b">> }
Garbage == { <<"x">> }

Kinds == {"blank", "text", "value", "object"}

(* One line as delivered by resp.aiter_lines().  pad: the line has leading *)
(* and trailing whitespace; kind: what json.loads makes of its content;    *)
(* s: the content of a non-JSON line, or the "response" member of an       *)
(* object; has: the object has a "response" key; done: its "done" member.  *)
MkLine(pad, kind, s, has, done) ==
    [pad |-> pad, kind |-> kind, s |-> s, has |-> has, done |-> done]

LineSet ==
    { MkLine(p, "blank", NoStr, FALSE, FALSE) : p \in BOOLEAN }
    \cup { MkLine(p, "text", g, FALSE, FALSE) : p \in BOOLEAN, g \in Garbage }
    \cup { MkLine(FALSE, "value", NoStr, FALSE, FALSE) }
    \cup { MkLine(FALSE, "object", NoStr, FALSE, d) : d \in BOOLEAN }
    \cup { MkLine(FALSE, "object", f, TRUE, d) : f \in Fragments, d \in BOOLEAN }

RECURSIVE SeqsUpTo(_, _)
SeqsUpTo(S, n) ==
    IF n = 0 THEN { <<>> }
    ELSE LET shorter == SeqsUpTo(S, n - 1)
         IN  shorter \cup { Append(q, x) : q \in { r \in shorter : Len(r) = n - 1 }, x \in S }

(* the characters of the line as a string *)
Content(l) ==
    (IF l.pad THEN <<SP>> ELSE <<>>) \o l.s \o (IF l.pad THEN <<SP>> ELSE <<>>)

(* a strip() that leaves the string as it is *)
strip_Keep(l) == l

(* str.strip() *)
strip(l) == [l EXCEPT !.pad = FALSE]

(* a test that takes no string for empty *)
IsEmptyStr_Never(l) == FALSE

(* `not line_bytes` / `not line`: the empty string is falsy *)
IsEmptyStr(l) == l.kind = "blank" /\ ~l.pad

(***************************************************************************)
(* Events: the SSE event strings the generator yields.                     *)
(***************************************************************************)
StatusCodes == {200, 404, 500}

TextEvent(s) == [type |-> "text", text |-> s, code |-> 0, message |-> ""]
StatusErrorEvent(c) == [type |-> "error", text |-> NoStr, code |-> c, message |-> "body"]
ConnectErrorEvent ==
    [type |-> "error", text |-> NoStr, code |-> 0, message |-> "Failed to connect to Ollama"]
InternalErrorEvent ==
    [type |-> "error", text |-> NoStr, code |-> 0, message |-> "Internal server error"]
DoneEvent == [type |-> "done", text |-> NoStr, code |-> 0, message |-> ""]

(* json.loads(line): a dict, another JSON value, or JSONDecodeError *)
json_loads(l) ==
    CASE l.kind = "object" -> "dict"
      [] l.kind = "value" -> "value"
      [] OTHER -> "JSONDecodeError"

(* resp.raise_for_status() raises *)
IsErrorStatus(c) == c >= 400

(***************************************************************************)
(* The body of the `async for` loop for one line: what the generator does  *)
(* with it before it suspends again.                                       *)
(*   skip  : `continue` (lines 157-161), or an object without "response"   *)
(*   text  : yield at line 170                                             *)
(*   raw   : yield at line 178                                             *)
(*   break : line 174 without a preceding yield                            *)
(*   raise : "response" in / .get on a value that is no dict raises        *)
(*           TypeError or AttributeError, which leaves the loop            *)
(***************************************************************************)
ProcessLine_BreakFirst(l) ==
    IF IsEmptyStr(l) THEN [op |-> "skip", ev |-> DoneEvent]
    ELSE LET line == strip(l) IN
         IF IsEmptyStr(line) THEN [op |-> "skip", ev |-> DoneEvent]
         ELSE CASE json_loads(line) = "JSONDecodeError" ->
                       [op |-> "raw", ev |-> TextEvent(Content(line))]
                [] json_loads(line) = "value" ->
                       [op |-> "raise", ev |-> DoneEvent]
                [] json_loads(line) = "dict" ->
                       IF line.done THEN [op |-> "break", ev |-> DoneEvent]
                       ELSE IF line.has THEN [op |-> "text", ev |-> TextEvent(line.s)]
                       ELSE [op |-> "skip", ev |-> DoneEvent]

ProcessLine_AbsentAsRaw(l) ==
    IF IsEmptyStr(l) THEN [op |-> "skip", ev |-> DoneEvent]
    ELSE LET line == strip(l) IN
         IF IsEmptyStr(line) THEN [op |-> "skip", ev |-> DoneEvent]
         ELSE CASE json_loads(line) = "JSONDecodeError" ->
                       [op |-> "raw", ev |-> TextEvent(Content(line))]
                [] json_loads(line) = "value" ->
                       [op |-> "raise", ev |-> DoneEvent]
                [] json_loads(line) = "dict" ->
                       IF line.has THEN [op |-> "text", ev |-> TextEvent(line.s)]
                       ELSE [op |-> "raw", ev |-> TextEvent(<<"{", "}">>)]

ProcessLine_SkipRaw(l) ==
    IF IsEmptyStr(l) THEN [op |-> "skip", ev |-> DoneEvent]
    ELSE LET line == strip(l) IN
         IF IsEmptyStr(line) THEN [op |-> "skip", ev |-> DoneEvent]
         ELSE CASE json_loads(line) = "JSONDecodeError" ->
                       [op |-> "skip", ev |-> DoneEvent]
                [] json_loads(line) = "value" ->
                       [op |-> "raise", ev |-> DoneEvent]
                [] json_loads(line) = "dict" ->
                       IF line.has THEN [op |-> "text", ev |-> TextEvent(line.s)]
                       ELSE IF line.done THEN [op |-> "break", ev |-> DoneEvent]
                       ELSE [op |-> "skip", ev |-> DoneEvent]

ProcessLine(l) ==
    IF IsEmptyStr(l) THEN [op |-> "skip", ev |-> DoneEvent]
    ELSE LET line == strip(l) IN
         IF IsEmptyStr(line) THEN [op |-> "skip", ev |-> DoneEvent]
         ELSE CASE json_loads(line) = "JSONDecodeError" ->
                       [op |-> "raw", ev |-> TextEvent(Content(line))]
                [] json_loads(line) = "value" ->
                       [op |-> "raise", ev |-> DoneEvent]
                [] json_loads(line) = "dict" ->
                       IF line.has THEN [op |-> "text", ev |-> TextEvent(line.s)]
                       ELSE IF line.done THEN [op |-> "break", ev |-> DoneEvent]
                       ELSE [op |-> "skip", ev |-> DoneEvent]

(***************************************************************************)
(* Initial state: the generator objects exist, nothing has run.            *)
(***************************************************************************)
(* str.strip() on a string *)
RECURSIVE LStrip(_)
LStrip(s) == IF s # <<>> /\ Head(s) = SP THEN LStrip(Tail(s)) ELSE s

RECURSIVE RStrip(_)
RStrip(s) == IF s # <<>> /\ s[Len(s)] = SP THEN RStrip(SubSeq(s, 1, Len(s) - 1)) ELSE s

StripStr(s) == RStrip(LStrip(s))

NoUrl == <<"#None">>
NoRequest ==
    [endpoint |-> "none", prompt |-> <<>>, image |-> "none", image_url |-> NoUrl,
     stream |-> FALSE]

ReqIdle ==
    /\ req = NoRequest
    /\ rpc = "off"
    /\ rprompt = <<>>
    /\ rhas = FALSE
    /\ rimg = "None"
    /\ resp = 0
    /\ rdetail = ""
    /\ invoked = <<>>

EncIdle ==
    /\ frag = NoStr
    /\ wire = NoStr
    /\ parsed = NoStr
    /\ epc = "off"

Init ==
    /\ active = {1}
    /\ \E q \in SeqsUpTo(LineSet, MaxLines) :
         lines = [i \in Streams |-> IF i = 1 THEN q ELSE <<>>]
    /\ pc = [i \in Streams |-> "idle"]
    /\ idx = [i \in Streams |-> 0]
    /\ out = [i \in Streams |-> <<>>]
    /\ conn = [i \in Streams |-> FALSE]
    /\ opens = [i \in Streams |-> 0]
    /\ status = [i \in Streams |-> 0]
    /\ pend = [i \in Streams |-> FALSE]
    /\ fault = [i \in Streams |-> "none"]
    /\ cancelled = [i \in Streams |-> FALSE]
    /\ EncIdle
    /\ ReqIdle

(***************************************************************************)
(* stream_ollama, one action per stretch of code between suspensions.      *)
(***************************************************************************)
Emit(i, e) == out' = [out EXCEPT ![i] = Append(@, e)]

(* first __anext__: lines 135-145, up to the await of client.stream(...) *)
Start(i) ==
    /\ pc[i] = "idle"
    /\ pc' = [pc EXCEPT ![i] = "connecting"]
    /\ UNCHANGED <<active, lines, idx, out, conn, opens, status, pend, fault, cancelled>>
    /\ UNCHANGED encVars
    /\ UNCHANGED reqVars

ConnectOK_NoStatusCheck(i, c) ==
    /\ pc[i] = "connecting"
    /\ conn' = [conn EXCEPT ![i] = TRUE]
    /\ opens' = [opens EXCEPT ![i] = @ + 1]
    /\ status' = [status EXCEPT ![i] = c]
    /\ pc' = [pc EXCEPT ![i] = "streaming"]
    /\ UNCHANGED <<active, lines, idx, out, pend, fault, cancelled>>
    /\ UNCHANGED encVars
    /\ UNCHANGED reqVars

(* client.stream(...) enters; raise_for_status at 147 *)
ConnectOK(i, c) ==
    /\ pc[i] = "connecting"
    /\ conn' = [conn EXCEPT ![i] = TRUE]
    /\ opens' = [opens EXCEPT ![i] = @ + 1]
    /\ status' = [status EXCEPT ![i] = c]
    /\ pc' = [pc EXCEPT ![i] = IF IsErrorStatus(c) THEN "aread" ELSE "streaming"]
    /\ UNCHANGED <<active, lines, idx, out, pend, fault, cancelled>>
    /\ UNCHANGED encVars
    /\ UNCHANGED reqVars

(* httpx.ConnectError at 145, handled at 180-182 *)
ConnectFail(i) ==
    /\ pc[i] = "connecting"
    /\ fault' = [fault EXCEPT ![i] = "connect"]
    /\ Emit(i, ConnectErrorEvent)
    /\ pc' = [pc EXCEPT ![i] = "y_error"]
    /\ UNCHANGED <<active, lines, idx, conn, opens, status, pend, cancelled>>
    /\ UNCHANGED encVars
    /\ UNCHANGED reqVars

ConnectRaise_Unhandled(i) ==
    /\ pc[i] = "connecting"
    /\ fault' = [fault EXCEPT ![i] = "request"]
    /\ pc' = [pc EXCEPT ![i] = "terminated"]
    /\ UNCHANGED <<active, lines, idx, out, conn, opens, status, pend, cancelled>>
    /\ UNCHANGED encVars
    /\ UNCHANGED reqVars

(* any other exception at 145, handled at 183-185 *)
ConnectRaise(i) ==
    /\ pc[i] = "connecting"
    /\ fault' = [fault EXCEPT ![i] = "request"]
    /\ Emit(i, InternalErrorEvent)
    /\ pc' = [pc EXCEPT ![i] = "y_error"]
    /\ UNCHANGED <<active, lines, idx, conn, opens, status, pend, cancelled>>
    /\ UNCHANGED encVars
    /\ UNCHANGED reqVars

AreadOK_NoCode(i) ==
    /\ pc[i] = "aread"
    /\ fault' = [fault EXCEPT ![i] = "status"]
    /\ Emit(i, InternalErrorEvent)
    /\ pc' = [pc EXCEPT ![i] = "y_status"]
    /\ UNCHANGED <<active, lines, idx, conn, opens, status, pend, cancelled>>
    /\ UNCHANGED encVars
    /\ UNCHANGED reqVars

(* lines 150-152: body read, error event yielded inside the `async with` *)
AreadOK(i) ==
    /\ pc[i] = "aread"
    /\ fault' = [fault EXCEPT ![i] = "status"]
    /\ Emit(i, StatusErrorEvent(status[i]))
    /\ pc' = [pc EXCEPT ![i] = "y_status"]
    /\ UNCHANGED <<active, lines, idx, conn, opens, status, pend, cancelled>>
    /\ UNCHANGED encVars
    /\ UNCHANGED reqVars

(* resp.aread() raises: the `async with` blocks exit, handled at 183-185 *)
AreadFail(i) ==
    /\ pc[i] = "aread"
    /\ fault' = [fault EXCEPT ![i] = "aread"]
    /\ conn' = [conn EXCEPT ![i] = FALSE]
    /\ Emit(i, InternalErrorEvent)
    /\ pc' = [pc EXCEPT ![i] = "y_error"]
    /\ UNCHANGED <<active, lines, idx, opens, status, pend, cancelled>>
    /\ UNCHANGED encVars
    /\ UNCHANGED reqVars

ResumeStatus_Done(i) ==
    /\ pc[i] = "y_status"
    /\ conn' = [conn EXCEPT ![i] = FALSE]
    /\ Emit(i, DoneEvent)
    /\ pc' = [pc EXCEPT ![i] = "y_done"]
    /\ UNCHANGED <<active, lines, idx, opens, status, pend, fault, cancelled>>
    /\ UNCHANGED encVars
    /\ UNCHANGED reqVars

(* resumed after the yield at 152: `return` at 153 *)
ResumeStatus(i) ==
    /\ pc[i] = "y_status"
    /\ conn' = [conn EXCEPT ![i] = FALSE]
    /\ pc' = [pc EXCEPT ![i] = "terminated"]
    /\ UNCHANGED <<active, lines, idx, out, opens, status, pend, fault, cancelled>>
    /\ UNCHANGED encVars
    /\ UNCHANGED reqVars

(* aiter_lines delivers the next line: lines 156-178 up to the next suspension *)
ReadLine(i) ==
    /\ pc[i] = "streaming"
    /\ idx[i] < Len(lines[i])
    /\ LET l == lines[i][idx[i] + 1]
           r == ProcessLine(l)
       IN  /\ idx' = [idx EXCEPT ![i] = @ + 1]
           /\ CASE r.op = "skip" ->
                     /\ UNCHANGED <<out, conn, pend, fault, pc>>
                [] r.op = "text" ->
                     /\ Emit(i, r.ev)
                     /\ pend' = [pend EXCEPT ![i] = l.done]
                     /\ pc' = [pc EXCEPT ![i] = "y_text"]
                     /\ UNCHANGED <<conn, fault>>
                [] r.op = "raw" ->
                     /\ Emit(i, r.ev)
                     /\ pc' = [pc EXCEPT ![i] = "y_raw"]
                     /\ UNCHANGED <<conn, pend, fault>>
                [] r.op = "break" ->
                     /\ conn' = [conn EXCEPT ![i] = FALSE]
                     /\ Emit(i, DoneEvent)
                     /\ pc' = [pc EXCEPT ![i] = "y_done"]
                     /\ UNCHANGED <<pend, fault>>
                [] r.op = "raise" ->
                     /\ conn' = [conn EXCEPT ![i] = FALSE]
                     /\ fault' = [fault EXCEPT ![i] = "decode"]
                     /\ Emit(i, InternalErrorEvent)
                     /\ pc' = [pc EXCEPT ![i] = "y_error"]
                     /\ UNCHANGED pend
    /\ UNCHANGED <<active, lines, opens, status, cancelled>>
    /\ UNCHANGED encVars
    /\ UNCHANGED reqVars

StreamEnd_OpenDone(i) ==
    /\ pc[i] = "streaming"
    /\ idx[i] = Len(lines[i])
    /\ Emit(i, DoneEvent)
    /\ pc' = [pc EXCEPT ![i] = "y_done"]
    /\ UNCHANGED <<active, lines, idx, conn, opens, status, pend, fault, cancelled>>
    /\ UNCHANGED encVars
    /\ UNCHANGED reqVars

StreamEnd_Error(i) ==
    /\ pc[i] = "streaming"
    /\ idx[i] = Len(lines[i])
    /\ conn' = [conn EXCEPT ![i] = FALSE]
    /\ Emit(i, InternalErrorEvent)
    /\ pc' = [pc EXCEPT ![i] = "y_error"]
    /\ UNCHANGED <<active, lines, idx, opens, status, pend, fault, cancelled>>
    /\ UNCHANGED encVars
    /\ UNCHANGED reqVars

StreamEnd_NoDone(i) ==
    /\ pc[i] = "streaming"
    /\ idx[i] = Len(lines[i])
    /\ conn' = [conn EXCEPT ![i] = FALSE]
    /\ pc' = [pc EXCEPT ![i] = "terminated"]
    /\ UNCHANGED <<active, lines, idx, out, opens, status, pend, fault, cancelled>>
    /\ UNCHANGED encVars
    /\ UNCHANGED reqVars

(* the body ends: the loop at 156 finishes, the `async with` exits, 188 *)
StreamEnd(i) ==
    /\ pc[i] = "streaming"
    /\ idx[i] = Len(lines[i])
    /\ conn' = [conn EXCEPT ![i] = FALSE]
    /\ Emit(i, DoneEvent)
    /\ pc' = [pc EXCEPT ![i] = "y_done"]
    /\ UNCHANGED <<active, lines, idx, opens, status, pend, fault, cancelled>>
    /\ UNCHANGED encVars
    /\ UNCHANGED reqVars

ReadFail_Timeout(i) ==
    /\ pc[i] = "streaming"
    /\ conn' = [conn EXCEPT ![i] = FALSE]
    /\ fault' = [fault EXCEPT ![i] = "timeout"]
    /\ Emit(i, InternalErrorEvent)
    /\ pc' = [pc EXCEPT ![i] = "y_error"]
    /\ UNCHANGED <<active, lines, idx, opens, status, pend, cancelled>>
    /\ UNCHANGED encVars
    /\ UNCHANGED reqVars

ReadFail_Silent(i) ==
    /\ pc[i] = "streaming"
    /\ conn' = [conn EXCEPT ![i] = FALSE]
    /\ fault' = [fault EXCEPT ![i] = "read"]
    /\ Emit(i, DoneEvent)
    /\ pc' = [pc EXCEPT ![i] = "y_done"]
    /\ UNCHANGED <<active, lines, idx, opens, status, pend, cancelled>>
    /\ UNCHANGED encVars
    /\ UNCHANGED reqVars

(* the connection fails while awaiting a line: handled at 183-185 *)
ReadFail(i) ==
    /\ pc[i] = "streaming"
    /\ conn' = [conn EXCEPT ![i] = FALSE]
    /\ fault' = [fault EXCEPT ![i] = "read"]
    /\ Emit(i, InternalErrorEvent)
    /\ pc' = [pc EXCEPT ![i] = "y_error"]
    /\ UNCHANGED <<active, lines, idx, opens, status, pend, cancelled>>
    /\ UNCHANGED encVars
    /\ UNCHANGED reqVars

ResumeText_NoBreak(i) ==
    /\ pc[i] = "y_text"
    /\ pc' = [pc EXCEPT ![i] = "streaming"]
    /\ pend' = [pend EXCEPT ![i] = FALSE]
    /\ UNCHANGED <<active, lines, idx, out, conn, opens, status, fault, cancelled>>
    /\ UNCHANGED encVars
    /\ UNCHANGED reqVars

(* resumed after the yield at 170: the done check at 173-174 *)
ResumeText(i) ==
    /\ pc[i] = "y_text"
    /\ IF pend[i]
         THEN /\ conn' = [conn EXCEPT ![i] = FALSE]
              /\ Emit(i, DoneEvent)
              /\ pc' = [pc EXCEPT ![i] = "y_done"]
         ELSE /\ pc' = [pc EXCEPT ![i] = "streaming"]
              /\ UNCHANGED <<conn, out>>
    /\ pend' = [pend EXCEPT ![i] = FALSE]
    /\ UNCHANGED <<active, lines, idx, opens, status, fault, cancelled>>
    /\ UNCHANGED encVars
    /\ UNCHANGED reqVars

(* resumed after the yield at 178: back to the loop head *)
ResumeRaw(i) ==
    /\ pc[i] = "y_raw"
    /\ pc' = [pc EXCEPT ![i] = "streaming"]
    /\ UNCHANGED <<active, lines, idx, out, conn, opens, status, pend, fault, cancelled>>
    /\ UNCHANGED encVars
    /\ UNCHANGED reqVars

ResumeError_Retry(i) ==
    /\ pc[i] = "y_error"
    /\ pc' = [pc EXCEPT ![i] = "connecting"]
    /\ UNCHANGED <<active, lines, idx, out, conn, opens, status, pend, fault, cancelled>>
    /\ UNCHANGED encVars
    /\ UNCHANGED reqVars

ResumeError_NoDone(i) ==
    /\ pc[i] = "y_error"
    /\ pc' = [pc EXCEPT ![i] = "terminated"]
    /\ UNCHANGED <<active, lines, idx, out, conn, opens, status, pend, fault, cancelled>>
    /\ UNCHANGED encVars
    /\ UNCHANGED reqVars

(* resumed after the yield at 182 or 185: falls through to 188 *)
ResumeError(i) ==
    /\ pc[i] = "y_error"
    /\ Emit(i, DoneEvent)
    /\ pc' = [pc EXCEPT ![i] = "y_done"]
    /\ UNCHANGED <<active, lines, idx, conn, opens, status, pend, fault, cancelled>>
    /\ UNCHANGED encVars
    /\ UNCHANGED reqVars

(* resumed after the yield at 188: the generator is exhausted *)
ResumeDone(i) ==
    /\ pc[i] = "y_done"
    /\ pc' = [pc EXCEPT ![i] = "terminated"]
    /\ UNCHANGED <<active, lines, idx, out, conn, opens, status, pend, fault, cancelled>>
    /\ UNCHANGED encVars
    /\ UNCHANGED reqVars

Cancel_Ignored(i) ==
    /\ pc[i] # "terminated"
    /\ ~cancelled[i]
    /\ cancelled' = [cancelled EXCEPT ![i] = TRUE]
    /\ UNCHANGED <<active, lines, pc, idx, out, conn, opens, status, pend, fault>>
    /\ UNCHANGED encVars
    /\ UNCHANGED reqVars

Cancel_All(i) ==
    /\ pc[i] # "terminated"
    /\ cancelled' = [cancelled EXCEPT ![i] = TRUE]
    /\ conn' = [j \in Streams |-> FALSE]
    /\ pc' = [pc EXCEPT ![i] = "terminated"]
    /\ UNCHANGED <<active, lines, idx, out, opens, status, pend, fault>>
    /\ UNCHANGED encVars
    /\ UNCHANGED reqVars

(* the client goes away: GeneratorExit / CancelledError at the suspension  *)
(* point is a BaseException, no handler of 142-185 catches it, the         *)
(* `async with` blocks close the response and the client.                  *)
Cancel(i) ==
    /\ pc[i] # "terminated"
    /\ cancelled' = [cancelled EXCEPT ![i] = TRUE]
    /\ conn' = [conn EXCEPT ![i] = FALSE]
    /\ pc' = [pc EXCEPT ![i] = "terminated"]
    /\ UNCHANGED <<active, lines, idx, out, opens, status, pend, fault>>
    /\ UNCHANGED encVars
    /\ UNCHANGED reqVars

Next ==
    \/ \E i \in active : Start(i)
    \/ \E i \in active : \E c \in StatusCodes : ConnectOK(i, c)
    \/ \E i \in active : ConnectFail(i)
    \/ \E i \in active : ConnectRaise(i)
    \/ \E i \in active : AreadOK(i)
    \/ \E i \in active : AreadFail(i)
    \/ \E i \in active : ResumeStatus(i)
    \/ \E i \in active : ReadLine(i)
    \/ \E i \in active : StreamEnd(i)
    \/ \E i \in active : ReadFail(i)
    \/ \E i \in active : ResumeText(i)
    \/ \E i \in active : ResumeRaw(i)
    \/ \E i \in active : ResumeError(i)
    \/ \E i \in active : ResumeDone(i)
    \/ \E i \in active : Cancel(i)

Spec == Init /\ [][Next]_vars

(***************************************************************************)
(* The SSE encoding of a Text event, lines 170 and 178:                    *)
(*     f"data: {json.dumps({'text': chunk_text})}\n\n"                     *)
(* and what an SSE client that JSON-parses the data field recovers.        *)
(***************************************************************************)
Alphabet == {"a", "n", QUOTE, BSLASH, NL, EAcute}

ParseError == <<"#error">>

EscapeChar_NoBackslash(c) ==
    CASE c = QUOTE -> <<BSLASH, QUOTE>>
      [] c = NL -> <<BSLASH, "n">>
      [] c = EAcute -> <<BSLASH, "u", "0", "0", "e", "9">>
      [] OTHER -> <<c>>

(* json.dumps of one character of a str, ensure_ascii = True *)
EscapeChar(c) ==
    CASE c = QUOTE -> <<BSLASH, QUOTE>>
      [] c = BSLASH -> <<BSLASH, BSLASH>>
      [] c = NL -> <<BSLASH, "n">>
      [] c = EAcute -> <<BSLASH, "u", "0", "0", "e", "9">>
      [] OTHER -> <<c>>

RECURSIVE Escape(_)
Escape(s) == IF s = <<>> THEN <<>> ELSE EscapeChar(Head(s)) \o Escape(Tail(s))

KeyPrefix == <<"{", QUOTE, "t", "e", "x", "t", QUOTE, ":", " ">>

(* json.dumps({'text': s}) *)
json_dumps_text(s) == KeyPrefix \o <<QUOTE>> \o Escape(s) \o <<QUOTE>> \o <<"}">>

DataPrefix == <<"d", "a", "t", "a", ":", " ">>

(* the f-string of line 170 / 178 *)
SseTextEvent(s) == DataPrefix \o json_dumps_text(s) \o <<NL, NL>>

(* Client side.  An SSE line ends at the first newline. *)
RECURSIVE UpToNewline(_)
UpToNewline(w) ==
    IF w = <<>> \/ Head(w) = NL THEN <<>> ELSE <<Head(w)>> \o UpToNewline(Tail(w))

IsPrefix(p, w) == Len(p) <= Len(w) /\ SubSeq(w, 1, Len(p)) = p

Drop(w, n) == SubSeq(w, n + 1, Len(w))

(* the data field of the first line of the event *)
ClientData(w) ==
    LET first == UpToNewline(w)
    IN  IF IsPrefix(DataPrefix, first) THEN Drop(first, Len(DataPrefix)) ELSE ParseError

(* JSON string body up to the closing quote: [ok, str, rest] *)
RECURSIVE ParseString(_, _)
ParseString(w, acc) ==
    IF w = <<>> THEN [ok |-> FALSE, str |-> acc, rest |-> w]
    ELSE LET c == Head(w) IN
         CASE c = QUOTE -> [ok |-> TRUE, str |-> acc, rest |-> Tail(w)]
           [] c = NL -> [ok |-> FALSE, str |-> acc, rest |-> w]
           [] c = BSLASH ->
                IF Len(w) < 2 THEN [ok |-> FALSE, str |-> acc, rest |-> w]
                ELSE LET e == w[2] IN
                     CASE e = QUOTE -> ParseString(Drop(w, 2), Append(acc, QUOTE))
                       [] e = BSLASH -> ParseString(Drop(w, 2), Append(acc, BSLASH))
                       [] e = "n" -> ParseString(Drop(w, 2), Append(acc, NL))
                       [] e = "u" ->
                            IF IsPrefix(<<BSLASH, "u", "0", "0", "e", "9">>, w)
                            THEN ParseString(Drop(w, 6), Append(acc, EAcute))
                            ELSE [ok |-> FALSE, str |-> acc, rest |-> w]
                       [] OTHER -> [ok |-> FALSE, str |-> acc, rest |-> w]
           [] OTHER -> ParseString(Tail(w), Append(acc, c))

(* JSON.parse(data).text *)
json_loads_text(p) ==
    IF ~IsPrefix(KeyPrefix \o <<QUOTE>>, p) THEN ParseError
    ELSE LET r == ParseString(Drop(p, Len(KeyPrefix) + 1), <<>>)
         IN  IF r.ok /\ r.rest = <<"}">> THEN r.str ELSE ParseError

(* number of lines of the event that carry a data field or payload text:   *)
(* every newline before the two terminating ones starts another line       *)
RECURSIVE CountNewlines(_)
CountNewlines(w) ==
    IF w = <<>> THEN 0 ELSE (IF Head(w) = NL THEN 1 ELSE 0) + CountNewlines(Tail(w))

InitEnc ==
    /\ active = {}
    /\ lines = [i \in Streams |-> <<>>]
    /\ pc = [i \in Streams |-> "idle"]
    /\ idx = [i \in Streams |-> 0]
    /\ out = [i \in Streams |-> <<>>]
    /\ conn = [i \in Streams |-> FALSE]
    /\ opens = [i \in Streams |-> 0]
    /\ status = [i \in Streams |-> 0]
    /\ pend = [i \in Streams |-> FALSE]
    /\ fault = [i \in Streams |-> "none"]
    /\ cancelled = [i \in Streams |-> FALSE]
    /\ frag \in SeqsUpTo(Alphabet, MaxFragLen)
    /\ wire = NoStr
    /\ parsed = NoStr
    /\ epc = "chunk"
    /\ ReqIdle

(* the yield at 170 / 178 *)
EncYield ==
    /\ epc = "chunk"
    /\ wire' = SseTextEvent(frag)
    /\ epc' = "sent"
    /\ UNCHANGED <<frag, parsed>>
    /\ UNCHANGED streamVars
    /\ UNCHANGED reqVars

(* the client reads the data field and parses it *)
ClientParse ==
    /\ epc = "sent"
    /\ parsed' = json_loads_text(ClientData(wire))
    /\ epc' = "parsed"
    /\ UNCHANGED <<frag, wire>>
    /\ UNCHANGED streamVars
    /\ UNCHANGED reqVars

NextEnc == EncYield \/ ClientParse

SpecEnc == InitEnc /\ [][NextEnc]_vars

(***************************************************************************)
(* The form endpoints POST /analyze (analyze_image, 236-275) and           *)
(* POST /stream-analyze (stream_analyze, 309-352).                         *)
(***************************************************************************)
DefaultPrompt == <<"What is in this image? Describe it in detail.">>

(* prompts as received in the form field *)
Prompts == { <<>>, <<SP>>, <<"h", "i">>, <<SP, "h", "i", SP>> }

(* the upload: absent, a file of zero bytes, a file with content *)
Uploads == {"none", "empty", "file"}

(* image_url: absent, empty, blank, not a URL, a URL (also padded) *)
GoodUrl == "http://host/cat.png"
Urls == { NoUrl, <<>>, <<SP>>, <<"cat.png">>, <<GoodUrl>>, <<SP, GoodUrl, SP>> }

FormEndpoints == {"analyze", "stream-analyze"}

(* is_valid_url, 53-58: scheme and netloc present *)
is_valid_url(u) == u = <<GoodUrl>>

(* `image is not None or (image_url and image_url.strip())`, 243 / 320 *)
HasImage(r) ==
    \/ r.image # "none"
    \/ (r.image_url # NoUrl /\ r.image_url # <<>> /\ StripStr(r.image_url) # <<>>)

InitReq ==
    /\ active = {}
    /\ lines = [i \in Streams |-> <<>>]
    /\ pc = [i \in Streams |-> "idle"]
    /\ idx = [i \in Streams |-> 0]
    /\ out = [i \in Streams |-> <<>>]
    /\ conn = [i \in Streams |-> FALSE]
    /\ opens = [i \in Streams |-> 0]
    /\ status = [i \in Streams |-> 0]
    /\ pend = [i \in Streams |-> FALSE]
    /\ fault = [i \in Streams |-> "none"]
    /\ cancelled = [i \in Streams |-> FALSE]
    /\ EncIdle
    /\ req \in [endpoint : FormEndpoints, prompt : Prompts, image : Uploads,
                 image_url : Urls, stream : {FALSE}]
               \cup [endpoint : {"chat"}, prompt : Prompts, image : {"none"},
                      image_url : {NoUrl}, stream : BOOLEAN]
    /\ rpc = "recv"
    /\ rprompt = <<>>
    /\ rhas = FALSE
    /\ rimg = "None"
    /\ resp = 0
    /\ rdetail = ""
    /\ invoked = <<>>

PromptRequiredNoImage == "Prompt is required when no image is provided"

StreamNotSupported ==
    "Streaming from POST is not supported. Use GET /stream?prompt=... for SSE."

(* the HTTPException detail of call_ollama_text / call_ollama_vision, 93-101 *)
UnaryDetail(code) ==
    CASE code = 502 -> "Ollama error"
      [] code = 503 -> "Cannot reach Ollama"
      [] code = 500 -> "str(e)"
      [] OTHER -> ""

Reject(code, detail) ==
    /\ resp' = code
    /\ rdetail' = detail
    /\ rpc' = "done"

Normalize_KeepEmpty ==
    /\ rpc = "recv"
    /\ req.endpoint \in FormEndpoints
    /\ LET p == StripStr(req.prompt)
           h == HasImage(req)
       IN  /\ rhas' = h
           /\ rprompt' = p
           /\ IF p = <<>> /\ ~h THEN Reject(400, PromptRequiredNoImage)
              ELSE rpc' = (IF h THEN "image" ELSE "call") /\ UNCHANGED <<resp, rdetail>>
    /\ UNCHANGED <<req, rimg, invoked>>
    /\ UNCHANGED streamVars
    /\ UNCHANGED encVars

(* lines 242-248 / 319-326: trim, default prompt or 400 *)
Normalize ==
    /\ rpc = "recv"
    /\ req.endpoint \in FormEndpoints
    /\ LET p == StripStr(req.prompt)
           h == HasImage(req)
       IN  /\ rhas' = h
           /\ IF p = <<>> /\ h
                THEN /\ rprompt' = DefaultPrompt
                     /\ rpc' = "image"
                     /\ UNCHANGED <<resp, rdetail>>
              ELSE IF p = <<>>
                THEN /\ rprompt' = p
                     /\ Reject(400, PromptRequiredNoImage)
              ELSE /\ rprompt' = p
                   /\ rpc' = (IF h THEN "image" ELSE "call")
                   /\ UNCHANGED <<resp, rdetail>>
    /\ UNCHANGED <<req, rimg, invoked>>
    /\ UNCHANGED streamVars
    /\ UNCHANGED encVars

(* lines 252-256 / 330-334: `await image.read()`, empty upload is a 400 *)
ReadUpload ==
    /\ rpc = "image"
    /\ req.image # "none"
    /\ IF req.image = "empty"
         THEN Reject(400, "Uploaded image is empty") /\ UNCHANGED rimg
         ELSE rimg' = "b64" /\ rpc' = "call" /\ UNCHANGED <<resp, rdetail>>
    /\ UNCHANGED <<req, rprompt, rhas, invoked>>
    /\ UNCHANGED streamVars
    /\ UNCHANGED encVars

(* lines 258-262 / 336-340: the URL is stripped, validated and downloaded; *)
(* download_image_from_url (60-75) answers any failure with a 400          *)
FetchUrl(ok) ==
    /\ rpc = "image"
    /\ req.image = "none"
    /\ IF is_valid_url(StripStr(req.image_url)) /\ ok
         THEN rimg' = "b64" /\ rpc' = "call" /\ UNCHANGED <<resp, rdetail>>
         ELSE Reject(400, IF is_valid_url(StripStr(req.image_url))
                               THEN "Failed to download image"
                               ELSE "Invalid image URL")
              /\ UNCHANGED rimg
    /\ UNCHANGED <<req, rprompt, rhas, invoked>>
    /\ UNCHANGED streamVars
    /\ UNCHANGED encVars

(* lines 342-347: the generator is handed to StreamingResponse *)
InvokeStream ==
    /\ rpc = "call"
    /\ req.endpoint = "stream-analyze"
    /\ invoked' = Append(invoked, [fn |-> "stream_ollama", prompt |-> rprompt, image |-> rimg])
    /\ resp' = 200
    /\ rdetail' = ""
    /\ rpc' = "done"
    /\ UNCHANGED <<req, rprompt, rhas, rimg>>
    /\ UNCHANGED streamVars
    /\ UNCHANGED encVars

(* lines 264-270: call_ollama_vision / call_ollama_text (82-126) answer    *)
(* 200, or 502 / 503 / 500 when the backend call fails                     *)
InvokeUnary(code) ==
    /\ rpc = "call"
    /\ req.endpoint = "analyze"
    /\ invoked' = Append(invoked,
                    [fn |-> IF rhas THEN "call_ollama_vision" ELSE "call_ollama_text",
                     prompt |-> rprompt, image |-> rimg])
    /\ resp' = code
    /\ rdetail' = UnaryDetail(code)
    /\ rpc' = "done"
    /\ UNCHANGED <<req, rprompt, rhas, rimg>>
    /\ UNCHANGED streamVars
    /\ UNCHANGED encVars

Chat_StreamFirst(code) ==
    /\ rpc = "recv"
    /\ req.endpoint = "chat"
    /\ IF req.stream
         THEN Reject(400, StreamNotSupported) /\ UNCHANGED invoked
       ELSE IF req.prompt = <<>> \/ StripStr(req.prompt) = <<>>
         THEN Reject(400, "Prompt is required") /\ UNCHANGED invoked
       ELSE /\ invoked' = Append(invoked,
                             [fn |-> "call_ollama_text", prompt |-> req.prompt, image |-> "None"])
            /\ resp' = code
            /\ rdetail' = UnaryDetail(code)
            /\ rpc' = "done"
    /\ UNCHANGED <<req, rprompt, rhas, rimg>>
    /\ UNCHANGED streamVars
    /\ UNCHANGED encVars

(* POST /chat, 278-290: blank prompt is a 400, then stream = true is a     *)
(* 400, then call_ollama_text(request.prompt) answers 200 / 502 / 503 / 500 *)
Chat(code) ==
    /\ rpc = "recv"
    /\ req.endpoint = "chat"
    /\ IF req.prompt = <<>> \/ StripStr(req.prompt) = <<>>
         THEN Reject(400, "Prompt is required") /\ UNCHANGED invoked
       ELSE IF req.stream
         THEN Reject(400, StreamNotSupported) /\ UNCHANGED invoked
       ELSE /\ invoked' = Append(invoked,
                             [fn |-> "call_ollama_text", prompt |-> req.prompt, image |-> "None"])
            /\ resp' = code
            /\ rdetail' = UnaryDetail(code)
            /\ rpc' = "done"
    /\ UNCHANGED <<req, rprompt, rhas, rimg>>
    /\ UNCHANGED streamVars
    /\ UNCHANGED encVars

NextReq ==
    \/ \E code \in {200, 502, 503, 500} : Chat(code)
    \/ Normalize
    \/ ReadUpload
    \/ \E ok \in BOOLEAN : FetchUrl(ok)
    \/ InvokeStream
    \/ \E code \in {200, 502, 503, 500} : InvokeUnary(code)

SpecReq == InitReq /\ [][NextReq]_vars

(***************************************************************************)
(* Two requests in flight: /stream and /stream-analyze (301, 342) create   *)
(* one stream_ollama generator per request, each with its own              *)
(* httpx.AsyncClient (144); the event loop interleaves them at their       *)
(* suspension points.                                                      *)
(***************************************************************************)
PairSeqs ==
    { << MkLine(FALSE, "object", <<"a">>, TRUE, FALSE),
         MkLine(FALSE, "object", <<"b">>, TRUE, TRUE) >>,
      << MkLine(TRUE, "text", <<"x">>, FALSE, FALSE),
         MkLine(FALSE, "object", <<"a">>, TRUE, FALSE) >>,
      << MkLine(FALSE, "object", <<"b">>, TRUE, FALSE),
         MkLine(FALSE, "value", NoStr, FALSE, FALSE) >> }

InitPair ==
    /\ active = Streams
    /\ lines \in [Streams -> PairSeqs]
    /\ pc = [i \in Streams |-> "idle"]
    /\ idx = [i \in Streams |-> 0]
    /\ out = [i \in Streams |-> <<>>]
    /\ conn = [i \in Streams |-> FALSE]
    /\ opens = [i \in Streams |-> 0]
    /\ status = [i \in Streams |-> 0]
    /\ pend = [i \in Streams |-> FALSE]
    /\ fault = [i \in Streams |-> "none"]
    /\ cancelled = [i \in Streams |-> FALSE]
    /\ EncIdle
    /\ ReqIdle

SpecPair == InitPair /\ [][Next]_vars

(***************************************************************************)
(* Scheduling.  The event loop resumes a generator whose consumer asks for *)
(* the next event (StreamingResponse keeps iterating while the client      *)
(* reads), and a backend that is not silent forever answers each await of  *)
(* the generator (145, 150, 156) with a response, a line, the end of the   *)
(* body or a failure.  Cancellation is never forced.                       *)
(***************************************************************************)
MaxLiveLines == 2

GenStep(i) ==
    /\ i \in active
    /\ \/ Start(i)
       \/ ResumeStatus(i)
       \/ ResumeText(i)
       \/ ResumeRaw(i)
       \/ ResumeError(i)
       \/ ResumeDone(i)

BackendStep(i) ==
    /\ i \in active
    /\ \/ \E c \in StatusCodes : ConnectOK(i, c)
       \/ ConnectFail(i)
       \/ ConnectRaise(i)
       \/ AreadOK(i)
       \/ AreadFail(i)
       \/ ReadLine(i)
       \/ StreamEnd(i)
       \/ ReadFail(i)

InitLive ==
    /\ active = {1}
    /\ \E q \in SeqsUpTo(LineSet, MaxLiveLines) :
         lines = [i \in Streams |-> IF i = 1 THEN q ELSE <<>>]
    /\ pc = [i \in Streams |-> "idle"]
    /\ idx = [i \in Streams |-> 0]
    /\ out = [i \in Streams |-> <<>>]
    /\ conn = [i \in Streams |-> FALSE]
    /\ opens = [i \in Streams |-> 0]
    /\ status = [i \in Streams |-> 0]
    /\ pend = [i \in Streams |-> FALSE]
    /\ fault = [i \in Streams |-> "none"]
    /\ cancelled = [i \in Streams |-> FALSE]
    /\ EncIdle
    /\ ReqIdle

Fairness ==
    \A i \in Streams : WF_vars(GenStep(i)) /\ WF_vars(BackendStep(i))

SpecLive == InitLive /\ [][Next]_vars /\ Fairness

(***************************************************************************)
(* Properties                                                              *)
(***************************************************************************)
Finished(i) == pc[i] = "terminated" /\ ~cancelled[i]

TextsOf(o) == SelectSeq(o, LAMBDA e : e.type = "text")

CountType(o, t) == Len(SelectSeq(o, LAMBDA e : e.type = t))

(* the generator got a connection with a non-error status *)
ReachedStreaming(i) == opens[i] = 1 /\ status[i] < 400

(* only JSON-object frames, the last one (and only it) has done = true *)
C1_WellFormed(L) ==
    /\ Len(L) > 0
    /\ \A j \in 1..Len(L) : L[j].kind = "object" /\ (L[j].done <=> j = Len(L))

RECURSIVE C1_Texts(_)
C1_Texts(L) ==
    IF L = <<>> THEN <<>>
    ELSE (IF Head(L).has THEN <<TextEvent(Head(L).s)>> ELSE <<>>) \o C1_Texts(Tail(L))

(* C1: when the backend delivers only well-formed object frames, the last  *)
(* of which is the done:true frame, and nothing fails, the complete output *)
(* is one Text event per frame that has a "response", in frame order,      *)
(* then exactly one Done event, and nothing else.                          *)
C1_OneTextPerFragmentThenDone ==
    \A i \in active :
        (Finished(i) /\ fault[i] = "none" /\ opens[i] = 1 /\ C1_WellFormed(lines[i]))
            => out[i] = C1_Texts(lines[i]) \o <<DoneEvent>>

C1_Witness ==
    \E i \in active :
        /\ Finished(i) /\ fault[i] = "none" /\ opens[i] = 1
        /\ C1_WellFormed(lines[i])
        /\ Len(lines[i]) = 3
        /\ \E j \in 1..3 : ~lines[i][j].has
        /\ Len(out[i]) = 3

(* non-JSON lines among object frames; done only on the last line, if at all *)
C2_Mixed(L) ==
    /\ \A j \in 1..Len(L) :
          /\ L[j].kind \in {"text", "object"}
          /\ L[j].done => j = Len(L)
    /\ \E j \in 1..Len(L) : L[j].kind = "text"

C2_Raw(l) == (IF l.pad THEN <<SP>> ELSE <<>>) \o l.s \o (IF l.pad THEN <<SP>> ELSE <<>>)

RECURSIVE C2_RawImage(_)
C2_RawImage(L) ==
    IF L = <<>> THEN <<>>
    ELSE (CASE Head(L).kind = "text" -> <<TextEvent(C2_Raw(Head(L)))>>
            [] Head(L).kind = "object" /\ Head(L).has -> <<TextEvent(Head(L).s)>>
            [] OTHER -> <<>>)
         \o C2_RawImage(Tail(L))

RECURSIVE C2_StrippedImage(_)
C2_StrippedImage(L) ==
    IF L = <<>> THEN <<>>
    ELSE (CASE Head(L).kind = "text" -> <<TextEvent(Head(L).s)>>
            [] Head(L).kind = "object" /\ Head(L).has -> <<TextEvent(Head(L).s)>>
            [] OTHER -> <<>>)
         \o C2_StrippedImage(Tail(L))

(* C2 as stated: every non-JSON line yields one Text event carrying the    *)
(* raw line content, in place among the Text events of the valid frames.   *)
C2_RawLineText ==
    \A i \in active :
        (Finished(i) /\ fault[i] = "none" /\ opens[i] = 1 /\ C2_Mixed(lines[i]))
            => out[i] = C2_RawImage(lines[i]) \o <<DoneEvent>>

(* C2 (amended): every non-JSON line yields exactly one Text event that    *)
(* carries the line content with leading and trailing whitespace stripped, *)
(* in place among the Text events of the valid frames, none of which is    *)
(* dropped or reordered.                                                   *)
C2_StrippedLineText ==
    \A i \in active :
        (Finished(i) /\ fault[i] = "none" /\ opens[i] = 1 /\ C2_Mixed(lines[i]))
            => out[i] = C2_StrippedImage(lines[i]) \o <<DoneEvent>>

C2_Witness ==
    \E i \in active :
        /\ Finished(i) /\ fault[i] = "none" /\ opens[i] = 1
        /\ Len(lines[i]) = 3
        /\ lines[i][1].kind = "object" /\ lines[i][1].has
        /\ lines[i][2].kind = "text" /\ lines[i][2].pad
        /\ lines[i][3].kind = "object" /\ lines[i][3].has
        /\ Len(out[i]) = 4

(* C3 as stated: an error initial status gives exactly one Error event     *)
(* with that status code, then a Done event, and no Text event.            *)
C3_StatusErrorThenDone ==
    \A i \in active :
        (Finished(i) /\ opens[i] = 1 /\ status[i] >= 400)
            => out[i] = <<StatusErrorEvent(status[i]), DoneEvent>>

(* C3 (amended): an error initial status gives no Text event; when the     *)
(* error body is read the output is exactly one Error event carrying the   *)
(* status code and no Done event follows it; when reading the body fails   *)
(* the output is one Error event without status code, then Done.           *)
C3_StatusErrorOnly ==
    \A i \in active :
        (Finished(i) /\ opens[i] = 1 /\ status[i] >= 400)
            => /\ fault[i] \in {"status", "aread"}
               /\ fault[i] = "status" => out[i] = <<StatusErrorEvent(status[i])>>
               /\ fault[i] = "aread" => out[i] = <<InternalErrorEvent, DoneEvent>>

C3_Witness ==
    \E i \in active :
        Finished(i) /\ opens[i] = 1 /\ status[i] = 500 /\ fault[i] = "status"

(* C4: when the connection fails mid-stream after k frames that carry a    *)
(* fragment and before any done:true frame, the complete output is those   *)
(* k Text events in order, then one Error event, then one Done event.      *)
C4_MidStreamFailure ==
    \A i \in active :
        (/\ Finished(i)
         /\ fault[i] = "read"
         /\ \A j \in 1..idx[i] :
               lines[i][j].kind = "object" /\ lines[i][j].has /\ ~lines[i][j].done)
            => /\ Len(out[i]) = idx[i] + 2
               /\ \A j \in 1..idx[i] : out[i][j] = TextEvent(lines[i][j].s)
               /\ out[i][idx[i] + 1].type = "error"
               /\ out[i][idx[i] + 2] = DoneEvent

C4_Witness ==
    \E i \in active :
        /\ Finished(i)
        /\ fault[i] = "read"
        /\ idx[i] = 2
        /\ \A j \in 1..2 : lines[i][j].kind = "object" /\ lines[i][j].has /\ ~lines[i][j].done
        /\ Len(out[i]) = 4

(* C5: for a stream that reached Streaming, Done is never followed by      *)
(* another event (it only ever stands last in the output, hence at most    *)
(* once), and unless the client cancelled the finished output ends with    *)
(* Done, also after a mid-stream error.                                    *)
C5_DoneTerminates ==
    \A i \in active :
        ReachedStreaming(i)
            => /\ \A j \in 1..Len(out[i]) : out[i][j].type = "done" => j = Len(out[i])
               /\ Finished(i) => (Len(out[i]) > 0 /\ out[i][Len(out[i])] = DoneEvent)

C5_Witness ==
    \E i \in active :
        /\ ReachedStreaming(i)
        /\ Finished(i)
        /\ fault[i] \in {"read", "decode"}
        /\ CountType(out[i], "text") >= 1
        /\ out[i][Len(out[i])] = DoneEvent

(* Text* Done *)
IsTextsDone(o) ==
    /\ Len(o) >= 1
    /\ o[Len(o)] = DoneEvent
    /\ \A j \in 1..(Len(o) - 1) : o[j].type = "text"

(* Text* Error Done *)
IsTextsErrorDone(o) ==
    /\ Len(o) >= 2
    /\ o[Len(o)] = DoneEvent
    /\ o[Len(o) - 1].type = "error"
    /\ \A j \in 1..(Len(o) - 2) : o[j].type = "text"

(* C6 as stated: the complete output of every non-cancelled stream is      *)
(* Text* Done or Text* Error Done.                                         *)
C6_TwoShapes ==
    \A i \in active :
        Finished(i) => (IsTextsDone(out[i]) \/ IsTextsErrorDone(out[i]))

(* C6 (amended): the complete output of every non-cancelled stream is      *)
(* Text* Done, or Text* Error Done, or, when the backend's initial status  *)
(* is an error status and its body was read, the single Error event with   *)
(* that status and no Done; so there is at most one Error event, no Text   *)
(* event follows an Error event, and every other sequence ends in Done.    *)
C6_ThreeShapes ==
    \A i \in active :
        Finished(i)
            => \/ IsTextsDone(out[i])
               \/ IsTextsErrorDone(out[i])
               \/ (fault[i] = "status" /\ out[i] = <<StatusErrorEvent(status[i])>>)

C6_Witness ==
    \E i \in active :
        /\ Finished(i)
        /\ fault[i] = "none"
        /\ idx[i] = Len(lines[i])
        /\ Len(lines[i]) = 2
        /\ IsTextsDone(out[i])
        /\ Len(out[i]) = 3

(* C7: once the client has cancelled, the backend connection is closed,    *)
(* no further backend line is consumed and no further event is emitted;    *)
(* this holds for the cancelling step itself and for every later step.     *)
C7_CancelStops ==
    [][\A i \in active :
          cancelled'[i] => (/\ ~conn'[i]
                            /\ idx'[i] = idx[i]
                            /\ out'[i] = out[i]
                            /\ opens'[i] = opens[i])]_vars

C7_Witness ==
    \E i \in active :
        /\ cancelled[i]
        /\ opens[i] = 1
        /\ CountType(out[i], "text") = 1
        /\ CountType(out[i], "done") = 0
        /\ idx[i] < Len(lines[i])
        /\ ~conn[i]

RECURSIVE C8_Image(_)
C8_Image(L) ==
    IF L = <<>> THEN <<>>
    ELSE (IF Head(L).kind = "text" \/ (Head(L).kind = "object" /\ Head(L).has)
          THEN <<TextEvent(Head(L).s)>> ELSE <<>>)
         \o C8_Image(Tail(L))

(* C8: in every state the Text events delivered so far are the in-order    *)
(* image of the backend lines consumed so far, one event per line; lines   *)
(* are consumed one at a time and only while no event is pending at a      *)
(* yield.                                                                  *)
C8_StrictFifo ==
    /\ [](\A i \in active :
            TextsOf(out[i]) = C8_Image(SubSeq(lines[i], 1, idx[i])))
    /\ [][\A i \in active :
            idx'[i] # idx[i] => (idx'[i] = idx[i] + 1 /\ pc[i] = "streaming")]_vars

C8_Witness ==
    \E i \in active :
        /\ idx[i] = 3
        /\ Len(TextsOf(out[i])) = 3
        /\ out[i][1] # out[i][2]
        /\ lines[i][3].kind = "text"

(* C9: a failure to establish the backend connection is reported to the    *)
(* client as exactly one Error event with a message, with no Text event,   *)
(* and the generator never ends without having emitted it.                 *)
C9_ConnectFailureReported ==
    \A i \in active :
        fault[i] \in {"connect", "request"}
            => /\ opens[i] = 0
               /\ Len(out[i]) >= 1
               /\ out[i][1].type = "error"
               /\ out[i][1].message # ""
               /\ CountType(out[i], "error") = 1
               /\ CountType(out[i], "text") = 0

C9_Witness ==
    \E i \in active :
        /\ fault[i] = "connect"
        /\ Finished(i)
        /\ out[i] = <<ConnectErrorEvent, DoneEvent>>

(* C10: the data payload of the Text event encoded for a fragment parses   *)
(* back to exactly that fragment, and the event has one data line only:    *)
(* its only newlines are the two that terminate the event.                 *)
C10_RoundTrip ==
    /\ epc \in {"sent", "parsed"}
         => /\ CountNewlines(wire) = 2
            /\ SubSeq(wire, Len(wire) - 1, Len(wire)) = <<NL, NL>>
            /\ IsPrefix(DataPrefix, wire)
    /\ epc = "parsed" => parsed = frag

C10_Witness ==
    /\ epc = "parsed"
    /\ frag = <<QUOTE, NL, EAcute>>
    /\ parsed = frag

C11_Blank(s) == \A k \in 1..Len(s) : s[k] = SP

C11_NoImage(r) ==
    /\ r.image = "none"
    /\ r.image_url = NoUrl \/ C11_Blank(r.image_url)

(* C11: on /analyze and /stream-analyze a request whose prompt is blank    *)
(* and that has no image is answered 400 and no backend call is made for   *)
(* it; every backend or translator call gets a non-empty prompt, and for a *)
(* request whose prompt was blank (which then has an image) it gets the    *)
(* default prompt.                                                         *)
C11_PromptNormalized ==
    /\ (rpc \notin {"off", "recv"} /\ C11_Blank(req.prompt) /\ C11_NoImage(req))
          => (resp = 400 /\ invoked = <<>> /\ rpc = "done")
    /\ \A k \in 1..Len(invoked) :
          /\ invoked[k].prompt # <<>>
          /\ ~C11_Blank(invoked[k].prompt)
          /\ C11_Blank(req.prompt)
               => (invoked[k].prompt = DefaultPrompt /\ ~C11_NoImage(req))

C11_Witness ==
    /\ rpc = "done"
    /\ req.endpoint = "stream-analyze"
    /\ req.prompt = <<SP>>
    /\ req.image = "file"
    /\ invoked = <<[fn |-> "stream_ollama", prompt |-> DefaultPrompt, image |-> "b64"]>>

(* what a stream running alone consumes of L when nothing fails: up to and *)
(* including the first done:true object or non-object JSON value           *)
RECURSIVE C12_Consumed(_)
C12_Consumed(L) ==
    IF L = <<>> THEN 0
    ELSE IF Head(L).kind = "value" \/ (Head(L).kind = "object" /\ Head(L).done) THEN 1
    ELSE 1 + C12_Consumed(Tail(L))

(* the complete output of a stream as a function of its own backend only *)
C12_Solo(L, n, f, c) ==
    CASE f = "connect" -> <<ConnectErrorEvent, DoneEvent>>
      [] f = "request" -> <<InternalErrorEvent, DoneEvent>>
      [] f = "status" -> <<StatusErrorEvent(c)>>
      [] f = "aread" -> <<InternalErrorEvent, DoneEvent>>
      [] f = "read" -> C8_Image(SubSeq(L, 1, n)) \o <<InternalErrorEvent, DoneEvent>>
      [] f = "decode" -> C8_Image(SubSeq(L, 1, C12_Consumed(L))) \o <<InternalErrorEvent, DoneEvent>>
      [] OTHER -> C8_Image(SubSeq(L, 1, C12_Consumed(L))) \o <<DoneEvent>>

C12_Local(i) == <<pc[i], idx[i], out[i], conn[i], opens[i], status[i], pend[i], fault[i], cancelled[i]>>

(* C12: with two generators interleaved at arbitrary suspension points,    *)
(* every step changes the state, events and connection of one generator    *)
(* only, and the finished output of each is the output it produces alone   *)
(* on its own backend lines and its own backend failures.                  *)
C12_Independent ==
    /\ [](\A i \in active :
            /\ Finished(i) => out[i] = C12_Solo(lines[i], idx[i], fault[i], status[i])
            /\ conn[i] => pc[i] \in {"aread", "y_status", "streaming", "y_text", "y_raw"})
    /\ [][\A i \in Streams : \A j \in Streams \ {i} :
            C12_Local(i)' # C12_Local(i) => (C12_Local(j)' = C12_Local(j) /\ lines' = lines)]_vars

C12_Witness ==
    /\ active = Streams
    /\ cancelled[1] /\ opens[1] = 1 /\ CountType(out[1], "text") = 1
    /\ Finished(2) /\ fault[2] = "read" /\ CountType(out[2], "text") = 1
    /\ lines[1] # lines[2]

(* C13: once the body of an error-status response has been read, the       *)
(* output is exactly one Error event with the backend's status code and    *)
(* body, no line has been decoded, no Text event exists, and the generator *)
(* is at the yield of that event or terminated: no Done event follows.     *)
C13_StatusErrorTerminal ==
    \A i \in active :
        /\ pc[i] = "aread" => (out[i] = <<>> /\ idx[i] = 0)
        /\ (opens[i] = 1 /\ status[i] >= 400 /\ fault[i] = "status")
              => /\ out[i] = <<[type |-> "error", text |-> NoStr,
                                code |-> status[i], message |-> "body"]>>
                 /\ idx[i] = 0
                 /\ pc[i] \in {"y_status", "terminated"}

C13_Witness ==
    \E i \in active :
        /\ pc[i] = "terminated" /\ ~cancelled[i]
        /\ status[i] = 404
        /\ fault[i] = "status"
        /\ Len(lines[i]) > 0

(* C14: once a frame with done = true has been consumed, it is the last    *)
(* line consumed; the output is the Text events of the lines up to and     *)
(* including it (its own fragment included), followed by nothing or by     *)
(* Done alone, and by Done when the generator finished.                    *)
C14_DoneFrameEndsPulling ==
    \A i \in active :
        \A j \in 1..idx[i] :
            (lines[i][j].kind = "object" /\ lines[i][j].done)
                => /\ idx[i] = j
                   /\ LET T == C8_Image(SubSeq(lines[i], 1, j))
                      IN  /\ out[i] \in {T, T \o <<DoneEvent>>}
                          /\ lines[i][j].has => T[Len(T)] = TextEvent(lines[i][j].s)
                          /\ Finished(i) => out[i] = T \o <<DoneEvent>>

C14_Witness ==
    \E i \in active :
        /\ Finished(i)
        /\ Len(lines[i]) = 3
        /\ lines[i][2].kind = "object" /\ lines[i][2].done /\ lines[i][2].has
        /\ lines[i][3].kind = "object" /\ lines[i][3].has
        /\ idx[i] = 2
        /\ Len(out[i]) = 3

(* C15: no backend line, whatever its content, is surfaced as an Error     *)
(* event: as long as the connection was established with a non-error       *)
(* status and no read failed, the output contains no Error event.          *)
C15_LinesNeverFatal ==
    \A i \in active :
        fault[i] \notin {"connect", "request", "status", "aread", "read"}
            => CountType(out[i], "error") = 0

(* C16 as stated: every parsed frame yields a Text event, the fragment if  *)
(* it has one and the raw line otherwise, so a run over object frames      *)
(* only has as many Text events as frames consumed.                        *)
C16_AbsentFragmentRawText ==
    \A i \in active :
        (Finished(i) /\ fault[i] = "none"
         /\ \A j \in 1..idx[i] : lines[i][j].kind = "object")
            => Len(TextsOf(out[i])) = idx[i]

(* C16 (amended): a successfully parsed frame whose response fragment is   *)
(* absent is tolerated and produces no Text event: consuming it emits      *)
(* nothing and the stream goes on, or, when it has done = true, the stream *)
(* ends with Done.                                                         *)
C16_AbsentFragmentSkipped ==
    [][\A i \in active :
          (/\ idx'[i] = idx[i] + 1
           /\ lines[i][idx'[i]].kind = "object"
           /\ ~lines[i][idx'[i]].has)
             => /\ fault'[i] = fault[i]
                /\ IF lines[i][idx'[i]].done
                     THEN out'[i] = Append(out[i], DoneEvent) /\ pc'[i] = "y_done"
                     ELSE out'[i] = out[i] /\ pc'[i] = "streaming"]_vars

C16_Witness ==
    \E i \in active :
        /\ Finished(i) /\ fault[i] = "none"
        /\ Len(lines[i]) = 2
        /\ lines[i][1].kind = "object" /\ ~lines[i][1].has /\ ~lines[i][1].done
        /\ lines[i][2].kind = "object" /\ lines[i][2].has
        /\ out[i] = <<TextEvent(lines[i][2].s), DoneEvent>>

C17_NonBlank(L) == SelectSeq(L, LAMBDA l : l.kind # "blank")

(* C17: consuming an empty or whitespace-only line emits no event, leaves  *)
(* the connection open and the stream running; and the finished output of  *)
(* an undisturbed stream is the output for its lines with the blank ones   *)
(* removed.                                                                *)
C17_BlankLinesSkipped ==
    /\ [][\A i \in active :
            (idx'[i] = idx[i] + 1 /\ lines[i][idx'[i]].kind = "blank")
               => /\ out'[i] = out[i]
                  /\ pc'[i] = "streaming"
                  /\ conn'[i]
                  /\ fault'[i] = fault[i]]_vars
    /\ [](\A i \in active :
            (Finished(i) /\ fault[i] \in {"none", "decode"} /\ opens[i] = 1)
               => out[i] = C12_Solo(C17_NonBlank(lines[i]), 0, fault[i], status[i]))

C17_Witness ==
    \E i \in active :
        /\ Finished(i) /\ fault[i] = "none" /\ opens[i] = 1
        /\ Len(lines[i]) = 3
        /\ lines[i][1].kind = "blank" /\ ~lines[i][1].pad
        /\ lines[i][2].kind = "blank" /\ lines[i][2].pad
        /\ lines[i][3].kind = "object" /\ lines[i][3].has
        /\ Len(out[i]) = 2

(* C18: when the body ends without a done:true frame and nothing failed,   *)
(* every line has been consumed and the output is the Text events of the   *)
(* lines received, then Done, with no Error event.                         *)
C18_CleanCloseIsCompletion ==
    \A i \in active :
        (/\ Finished(i) /\ fault[i] = "none" /\ opens[i] = 1
         /\ \A j \in 1..Len(lines[i]) :
               lines[i][j].kind # "value" /\ ~lines[i][j].done)
            => /\ idx[i] = Len(lines[i])
               /\ CountType(out[i], "error") = 0
               /\ CountType(out[i], "done") = 1
               /\ out[i][Len(out[i])] = DoneEvent
               /\ Len(out[i]) = 1 + Cardinality({ j \in 1..Len(lines[i]) :
                                      lines[i][j].kind = "text" \/ lines[i][j].has })

C18_Witness ==
    \E i \in active :
        /\ Finished(i) /\ fault[i] = "none" /\ opens[i] = 1
        /\ Len(lines[i]) = 2
        /\ \A j \in 1..2 : lines[i][j].kind = "object" /\ lines[i][j].has /\ ~lines[i][j].done
        /\ Len(out[i]) = 3

(* C19: a generator opens the backend connection at most once; after any   *)
(* failure exactly one Error event reports it and from then on no          *)
(* connection is opened, no line is read and no further Error is emitted:  *)
(* the stream only goes on to end.                                         *)
C19_NoRetry ==
    /\ [](\A i \in active :
            /\ opens[i] <= 1
            /\ fault[i] # "none" => CountType(out[i], "error") = 1
            /\ fault[i] # "none" => pc[i] \in {"y_status", "y_error", "y_done", "terminated"})
    /\ [][\A i \in active :
            fault[i] # "none"
               => /\ opens'[i] = opens[i]
                  /\ idx'[i] = idx[i]
                  /\ ~(conn'[i] /\ ~conn[i])
                  /\ fault'[i] = fault[i]]_vars

C19_Witness ==
    \E i \in active :
        /\ Finished(i)
        /\ fault[i] = "read"
        /\ opens[i] = 1
        /\ idx[i] < Len(lines[i])
        /\ CountType(out[i], "error") = 1

(* the translator state of spec section 4.4; a generator that is suspended *)
(* at the yield of an Error or Done event is still in the state it leaves  *)
C20_State(i) ==
    CASE pc[i] = "idle" -> "Idle"
      [] pc[i] \in {"connecting", "aread", "y_status"} -> "Connecting"
      [] pc[i] \in {"streaming", "y_text", "y_raw"} -> "Streaming"
      [] pc[i] = "terminated" -> "Terminated"
      [] OTHER -> IF opens[i] = 1 /\ fault[i] \in {"none", "read", "decode"}
                  THEN "Streaming" ELSE "Connecting"

C20_Moves ==
    { <<"Idle", "Connecting">>, <<"Connecting", "Streaming">>,
      <<"Connecting", "Terminated">>, <<"Streaming", "Terminated">> }

(* C20: the state only moves Idle -> Connecting -> Streaming -> Terminated *)
(* or Connecting -> Terminated, or to Terminated by cancellation;          *)
(* Streaming is entered only with an open connection whose status is no    *)
(* error status; Text events are emitted only in Streaming; in Terminated  *)
(* nothing is emitted, read or opened any more.                            *)
C20_StateMachine ==
    /\ [](\A i \in active :
            pc[i] \in {"streaming", "y_text", "y_raw"}
               => (opens[i] = 1 /\ conn[i] /\ status[i] \in 200..399 /\ fault[i] = "none"))
    /\ [][\A i \in active :
            /\ C20_State(i)' # C20_State(i)
                 => \/ <<C20_State(i), C20_State(i)'>> \in C20_Moves
                    \/ (C20_State(i)' = "Terminated" /\ cancelled'[i])
            /\ TextsOf(out'[i]) # TextsOf(out[i])
                 => (C20_State(i) = "Streaming" /\ C20_State(i)' = "Streaming")
            /\ C20_State(i) = "Terminated"
                 => /\ pc'[i] = "terminated"
                    /\ out'[i] = out[i]
                    /\ idx'[i] = idx[i]
                    /\ opens'[i] = opens[i]
                    /\ ~conn'[i]]_vars

C20_Witness ==
    \E i \in active :
        /\ pc[i] = "terminated" /\ ~cancelled[i]
        /\ opens[i] = 1 /\ status[i] = 200
        /\ fault[i] = "none"
        /\ CountType(out[i], "text") = 2

(* C21: when the event loop keeps resuming the generator and the backend   *)
(* keeps answering, every stream request eventually reaches Terminated;    *)
(* and the generator leaves an await on the backend only through a backend *)
(* answer (response, line, end of body, failure) or cancellation, never by *)
(* a timeout of its own.                                                   *)
C21_EventuallyTerminated ==
    /\ \A i \in Streams : [](i \in active => <>(pc[i] = "terminated"))
    /\ [][\A i \in active :
            (pc[i] \in {"connecting", "aread", "streaming"} /\ pc'[i] # pc[i])
               => \/ cancelled'[i]
                  \/ pc[i] = "connecting"
                       /\ (opens'[i] = opens[i] + 1 \/ fault'[i] \in {"connect", "request"})
                  \/ pc[i] = "aread" /\ fault'[i] \in {"status", "aread"}
                  \/ pc[i] = "streaming"
                       /\ \/ idx'[i] = idx[i] + 1
                          \/ fault'[i] = "read"
                          \/ (idx[i] = Len(lines[i]) /\ fault'[i] = fault[i])]_vars

C21_Witness ==
    \E i \in active :
        /\ pc[i] = "terminated" /\ ~cancelled[i]
        /\ opens[i] = 1 /\ fault[i] = "none"
        /\ idx[i] = 2
        /\ Len(out[i]) = 3

(* C22: a terminated generator has no open connection; whenever a Done     *)
(* event or an Error event other than the initial-status one is in the     *)
(* output the connection is already closed, so the only events emitted     *)
(* with the connection open are Text events and the initial-status Error;  *)
(* and a connection is closed only by completion (with Done), by a failure *)
(* or by the client's cancellation.                                        *)
C22_ReleaseOrder ==
    /\ [](\A i \in active :
            /\ pc[i] = "terminated" => ~conn[i]
            /\ \A j \in 1..Len(out[i]) :
                  (out[i][j].type = "done" \/ (out[i][j].type = "error" /\ out[i][j].code = 0))
                     => ~conn[i])
    /\ [][\A i \in active :
            /\ (out'[i] # out[i] /\ conn'[i])
                 => LET e == out'[i][Len(out'[i])]
                    IN  e.type = "text" \/ (e.type = "error" /\ e.code = status[i] /\ e.code >= 400)
            /\ (conn[i] /\ ~conn'[i])
                 => \/ cancelled'[i]
                    \/ fault'[i] # "none"
                    \/ (out'[i] = Append(out[i], DoneEvent) /\ fault'[i] = "none")]_vars

C22_Witness ==
    \E i \in active :
        /\ pc[i] = "y_error"
        /\ fault[i] = "read"
        /\ opens[i] = 1
        /\ CountType(out[i], "text") = 2
        /\ ~conn[i]

(* C23: POST /chat makes no backend call for an invalid request and never  *)
(* opens a backend stream: a blank prompt is answered 400 "Prompt is       *)
(* required" (also when stream is set), otherwise stream = true is         *)
(* answered 400 pointing to GET /stream, and only a non-blank,             *)
(* non-streaming request calls call_ollama_text, exactly once.             *)
C23_ChatValidation ==
    (req.endpoint = "chat" /\ rpc = "done")
        => /\ \A k \in 1..Len(invoked) : invoked[k].fn = "call_ollama_text"
           /\ IF C11_Blank(req.prompt)
                THEN resp = 400 /\ rdetail = "Prompt is required" /\ invoked = <<>>
              ELSE IF req.stream
                THEN /\ resp = 400
                     /\ rdetail = StreamNotSupported
                     /\ invoked = <<>>
              ELSE /\ Len(invoked) = 1
                   /\ invoked[1].prompt = req.prompt
                   /\ resp \in {200, 502, 503, 500}

C23_Witness ==
    /\ req.endpoint = "chat"
    /\ rpc = "done"
    /\ req.prompt = <<SP>>
    /\ req.stream
    /\ resp = 400
    /\ invoked = <<>>

====
